---- MODULE Spec2Model ----
(***************************************************************************)
(* Model of the transcript segment merger (custom_dubber/utils.py,         *)
(* concat_close_transcripts) and of the timed audio assembler it feeds.    *)
(*                                                                         *)
(* Time is counted in ticks of half a second.  Every tick value is exactly *)
(* representable as a Python float, so the float arithmetic of the source  *)
(* (+, -, <=, // 1) is exact on the values the model draws.                *)
(***************************************************************************)
EXTENDS Integers, Sequences, FiniteSets

(***************************************************************************)
(* Bounds of the model.                                                    *)
(***************************************************************************)
\* longest fragment sequence handed to concat_close_transcripts
MaxLen == 3

\* longest segment list handed to insert_audio_at_timestamps
MaxSegments == 3

(***************************************************************************)
(* Time representation and program constants.                              *)
(***************************************************************************)
\* ticks per second: start/end are float seconds, the model uses half seconds
TicksPerSecond == 2

\* utils.py:71  max_duration = 2 * 60  (seconds), here in ticks
max_duration == 2 * 60 * TicksPerSecond

\* utils.py:66 default threshold=2.0 and main.py:103 threshold=3.5, in ticks
Thresholds == {4, 7}

\* words below which a text counts as short (utils.py:77)
ShortWords == 3

(***************************************************************************)
(* Texts.  A text is the sequence of its whitespace-separated words, which *)
(* is what str.split() returns; a word is a record so that the words of    *)
(* different fragments and the words of an annotation stay distinguishable.*)
(***************************************************************************)
Word(field, i, j) == [s |-> field, frag |-> i, n |-> j]

Lit(str) == [s |-> str, frag |-> 0, n |-> 0]

\* the words of fragment i's text when it has k words
FragmentText(i, k) == [j \in 1..k |-> Word("text", i, j)]

\* the translated text of fragment i (one word; its length is never read)
FragmentTranslated(i) == <<Word("translated_text", i, 1)>>

\* f"{diff_seconds}": Python prints an int as "K" and a float as "K.0"
FormatNumber(isFloat, k) == [s |-> IF isFloat THEN "K.0" ELSE "K", frag |-> 0, n |-> k]

\* diff // 1 on floats: floor to whole seconds (still a float)
FloorSeconds(diff) == diff \div TicksPerSecond

\* utils.py:85  diff_seconds = max(0, diff // 1).  max returns its first
\* argument, the int 0, unless the float diff // 1 is strictly greater.
DiffSeconds(diff) ==
    IF FloorSeconds(diff) > 0
    THEN [isFloat |-> TRUE, k |-> FloorSeconds(diff)]
    ELSE [isFloat |-> FALSE, k |-> 0]

\* the words of f"\n (pause for {diff_seconds} seconds). \n"
PauseAnnotation(diff) ==
    << Lit("(pause"), Lit("for"),
       FormatNumber(DiffSeconds(diff).isFloat, DiffSeconds(diff).k),
       Lit("seconds).") >>

(***************************************************************************)
(* The loop body of concat_close_transcripts as operators.                 *)
(***************************************************************************)
\* utils.py:77  len(previous["text"].split()) < 3 or len(current["text"].split()) < 3
IsShortPair(previous, current) ==
    Len(previous.text) < ShortWords \/ Len(current.text) < ShortWords

\* utils.py:76-79  threshold_factor
ThresholdFactor(previous, current) ==
    IF IsShortPair(previous, current) THEN 2 ELSE 1

\* mutant of Nudge: only a short open segment is nudged
NudgeIfOpenShort(previous, current, thr) ==
    IF Len(previous.text) < ShortWords
    THEN [previous EXCEPT !.start = @ + thr]
    ELSE previous

\* utils.py:78  previous["start"] = previous["start"] + threshold
Nudge(previous, current, thr) ==
    IF IsShortPair(previous, current)
    THEN [previous EXCEPT !.start = @ + thr]
    ELSE previous

\* utils.py:75  diff = current["start"] - previous["end"]
Diff(previous, current) == current.start - previous.end

\* mutant of MergeCondition: the duration test reads the start from before the nudge
MergeConditionBeforeNudge(previous, current, thr) ==
    /\ Diff(previous, current) <= thr * ThresholdFactor(previous, current)
    /\ current.end - previous.start <= max_duration

\* utils.py:81-84, evaluated after the nudge of line 78
MergeCondition(previous, current, thr) ==
    /\ Diff(previous, current) <= thr * ThresholdFactor(previous, current)
    /\ current.end - Nudge(previous, current, thr).start <= max_duration

\* mutant of MergeText: the text of current is put before the open segment's
MergeTextPrepended(previous, current, thr) ==
    [Nudge(previous, current, thr) EXCEPT
        !.end = current.end,
        !.text = current.text \o PauseAnnotation(Diff(previous, current)) \o @]

\* utils.py:87-90  end and text of the open segment after a merge
MergeText(previous, current, thr) ==
    [Nudge(previous, current, thr) EXCEPT
        !.end = current.end,
        !.text = @ \o PauseAnnotation(Diff(previous, current)) \o current.text]

\* utils.py:91-94  previous["translated_text"] += ... + current["translated_text"]
MergeTranslated(merged, previous, current) ==
    [merged EXCEPT
        !.translated_text =
            @ \o PauseAnnotation(Diff(previous, current)) \o current.translated_text]

\* the subscripts of lines 91-94 raise KeyError when the key is missing
TranslatedKeyError(previous, current) ==
    ~previous.has_translated \/ ~current.has_translated

\* mutant of IsEmptyInput: a single fragment is treated like no fragment
IsEmptyInputOffByOne(ts) == Len(ts) <= 1

\* utils.py:67  if not transcripts
IsEmptyInput(ts) == ts = <<>>

\* utils.py:70  concatenated = [transcripts[0]]
Seed(ts) == <<ts[1]>>

\* utils.py:74  previous = concatenated[-1]
Previous(conc) == conc[Len(conc)]

\* utils.py:96 (else branch): the open segment keeps the nudge of line 78 and
\* current becomes the new last element
AppendCurrent(conc, current, thr) ==
    Append([conc EXCEPT ![Len(conc)] = Nudge(Previous(conc), current, thr)], current)

\* utils.py:85-94 (then branch): the open segment absorbs current
MergeCurrent(conc, current, thr) ==
    [conc EXCEPT ![Len(conc)] =
        MergeTranslated(MergeText(Previous(conc), current, thr), Previous(conc), current)]

\* utils.py:87-91 when line 91 raises: end and text are already updated in place
MergeCurrentUntilError(conc, current, thr) ==
    [conc EXCEPT ![Len(conc)] = MergeText(Previous(conc), current, thr)]

(***************************************************************************)
(* State.                                                                  *)
(***************************************************************************)
VARIABLES
    threshold,      \* the threshold argument, in ticks
    fragments,      \* the caller's fragment list, before any call
    transcripts,    \* the argument list as it was when the call started
    concatenated,   \* the local list `concatenated`
    idx,            \* index in transcripts of the next `current`
    pc,             \* "input", "loop", "returned", "raised"
    error,          \* the exception that ended the call, or "none"
    pass,           \* 1: first application, 2: applied to its own output
    first_output    \* what the first application returned (pass 2 only)

mergerVars ==
    <<threshold, fragments, transcripts, concatenated, idx, pc, error, pass, first_output>>

\* state of insert_audio_at_timestamps (audio_processing)
VARIABLES
    utterance_metadata,     \* the segment list argument
    background_duration,    \* duration of the background track, in ticks
    timeline_duration,      \* length of the vocals timeline built so far
    previous_end,           \* previous_placement_end
    placements,             \* clips placed so far: segment index, start, duration
    seg,                    \* index of the next segment to look at
    asm_pc                  \* "idle", "input", "placing", "done"

assemblerVars ==
    <<utterance_metadata, background_duration, timeline_duration, previous_end,
      placements, seg, asm_pc>>

\* main: what is on disk (kept from one run of main to the next)
VARIABLES
    captions,               \* the video's caption fragments (fixed per video)
    metadata_file,          \* download_metadata.json: [paths, subtitle_paths,
                            \*   transcripts, tts_complete]; absent keys hold
                            \*   the defaults of download_metadata.get
    subtitle_files,         \* subtitle files on disk, subset of {"source", "target"}
    clip_files,             \* synthesized clip files on disk (set of paths)
    completed_clips         \* the clip files written and trimmed to the end

\* main: one run of the orchestrator and its worker pool
VARIABLES
    run,                    \* number of the current run of main
    main_pc,                \* position of the orchestrator thread
    main_error,             \* the exception that ended the run, or "none"
    download_metadata,      \* the dict loaded at the start of the run
    subtitle_paths,         \* local subtitle_paths
    parsed,                 \* which subtitle text main parsed as the source
    main_transcripts,       \* local transcripts
    futures,                \* one record per submitted task
    updated_transcripts,    \* results collected from the futures
    synth_calls,            \* remote synthesis calls made in this run
    writers,                \* threads that wrote the metadata file in this run
    gate,                   \* "unknown", "open" (synthesis ran) or "skipped"
    all_synthesized         \* the previous run synthesized every segment

diskVars == <<captions, metadata_file, subtitle_files, clip_files, completed_clips>>

runVars ==
    <<run, main_pc, main_error, download_metadata, subtitle_paths, parsed,
      main_transcripts, futures, updated_transcripts, synth_calls, writers,
      gate, all_synthesized>>

mainVars == <<diskVars, runVars>>

\* translate_transcripts and GeminiTranslator
VARIABLES
    batch,                  \* the texts of the transcripts to translate
    parts,                  \* script.split(_BREAK_MARKER)
    chunk,                  \* index i of the chunk being translated
    script_splits,          \* translated chunks so far
    model,                  \* model argument of the current _translate_text call
    attempts,               \* _translate_text invocations for the current chunk
    mismatches,             \* marker-count mismatches seen for the current chunk
    translated_texts,       \* result of the final split
    results,                \* the list translate_transcripts returns
    translate_pc            \* position in translate_transcripts

translateVars ==
    <<batch, parts, chunk, script_splits, model, attempts, mismatches,
      translated_texts, results, translate_pc>>

\* GeminiTextToSpeech._convert_text_to_speech
VARIABLES
    tts_calls,              \* invocations of _convert_text_to_speech so far
    write_failures,         \* consecutive failed writes of the output file
    client_errors,          \* ClientError responses so far
    chunks,                 \* audio chunks received in the current invocation
    output_file,            \* the output file: "absent", "partial" or "written"
    tts_pc                  \* position in _convert_text_to_speech

ttsVars == <<tts_calls, write_failures, client_errors, chunks, output_file, tts_pc>>

\* VideoProcessing.combine_audio_video
VARIABLES
    video_duration,         \* duration of the video file, in ticks
    audio_duration,         \* duration of the dubbed audio file, in ticks
    ffmpeg_cmd,             \* the final mux command
    executed,               \* the commands run so far
    mux_pc                  \* position in combine_audio_video

muxVars == <<video_duration, audio_duration, ffmpeg_cmd, executed, mux_pc>>

vars == <<mergerVars, assemblerVars, mainVars, translateVars, ttsVars, muxVars>>

\* what the steps of each component leave alone
exceptMerger == <<assemblerVars, mainVars, translateVars, ttsVars, muxVars>>
exceptAssembler == <<mergerVars, mainVars, translateVars, ttsVars, muxVars>>
exceptMain == <<mergerVars, translateVars, ttsVars, muxVars>>
exceptTranslate == <<mergerVars, assemblerVars, mainVars, ttsVars, muxVars>>
exceptTts == <<mergerVars, assemblerVars, mainVars, translateVars, muxVars>>
exceptMux == <<mergerVars, assemblerVars, mainVars, translateVars, ttsVars>>

\* the metadata file does not exist: every get returns its default
NoMetadata ==
    [paths |-> FALSE, subtitle_paths |-> <<>>, transcripts |-> <<>>,
     tts_complete |-> FALSE]

\* main is not running
MainIdle ==
    /\ captions = <<>>
    /\ metadata_file = NoMetadata
    /\ subtitle_files = {}
    /\ clip_files = {}
    /\ completed_clips = {}
    /\ run = 0
    /\ main_pc = "idle"
    /\ main_error = "none"
    /\ download_metadata = NoMetadata
    /\ subtitle_paths = <<>>
    /\ parsed = "none"
    /\ main_transcripts = <<>>
    /\ futures = <<>>
    /\ updated_transcripts = <<>>
    /\ synth_calls = 0
    /\ writers = {}
    /\ gate = "unknown"
    /\ all_synthesized = FALSE

\* the translator is not running
TranslateIdle ==
    /\ batch = <<>>
    /\ parts = <<>>
    /\ chunk = 0
    /\ script_splits = <<>>
    /\ model = "None"
    /\ attempts = 0
    /\ mismatches = 0
    /\ translated_texts = <<>>
    /\ results = <<>>
    /\ translate_pc = "idle"

\* the synthesizer is not running
TtsIdle ==
    /\ tts_calls = 0
    /\ write_failures = 0
    /\ client_errors = 0
    /\ chunks = 0
    /\ output_file = "absent"
    /\ tts_pc = "idle"

\* the muxer is not running
MuxIdle ==
    /\ video_duration = 0
    /\ audio_duration = 0
    /\ ffmpeg_cmd = <<>>
    /\ executed = <<>>
    /\ mux_pc = "idle"

\* the assembler is not running
AssemblerIdle ==
    /\ utterance_metadata = <<>>
    /\ background_duration = 0
    /\ timeline_duration = 0
    /\ previous_end = 0
    /\ placements = <<>>
    /\ seg = 0
    /\ asm_pc = "idle"

(***************************************************************************)
(* Input fragments.                                                        *)
(***************************************************************************)
\* distance of a fragment's start from the previous fragment's start, so
\* that start is non-decreasing along the input
StartSteps == {0, 3, 10, 21}

\* the shapes an input fragment is drawn from: dur = end - start in ticks
\* (-1 is a malformed, negative duration; 242 is a caption of 121 seconds),
\* words = words in its text, hasTT = whether it has a translated_text key
Shapes ==
    { [dur |-> 1,   words |-> 2, hasTT |-> TRUE],
      [dur |-> 1,   words |-> 3, hasTT |-> TRUE],
      [dur |-> 242, words |-> 2, hasTT |-> TRUE],
      [dur |-> 242, words |-> 3, hasTT |-> TRUE],
      [dur |-> 1,   words |-> 3, hasTT |-> FALSE],
      [dur |-> -1,  words |-> 2, hasTT |-> TRUE] }

Fragment(i, start, shape) ==
    [start |-> start, end |-> start + shape.dur,
     text |-> FragmentText(i, shape.words),
     translated_text |-> IF shape.hasTT THEN FragmentTranslated(i) ELSE <<>>,
     has_translated |-> shape.hasTT]

Init ==
    /\ threshold \in Thresholds
    /\ fragments = <<>>
    /\ transcripts = <<>>
    /\ concatenated = <<>>
    /\ idx = 0
    /\ pc = "input"
    /\ error = "none"
    /\ pass = 1
    /\ first_output = <<>>
    /\ AssemblerIdle
    /\ MainIdle
    /\ TranslateIdle
    /\ TtsIdle
    /\ MuxIdle

\* the caller builds the ordered fragment list (extract_transcripts order)
AddFragment ==
    /\ pc = "input"
    /\ Len(fragments) < MaxLen
    /\ \E step \in StartSteps, shape \in Shapes :
         LET i == Len(fragments) + 1
             start == IF i = 1 THEN 0 ELSE fragments[i - 1].start + step
         IN  /\ (i = 1 => step = 0)
             /\ fragments' = Append(fragments, Fragment(i, start, shape))
    /\ UNCHANGED <<threshold, transcripts, concatenated, idx, pc, error, pass, first_output>>
    /\ UNCHANGED exceptMerger

\* utils.py:67-70 on the argument ts: empty input returns [], else the loop
\* starts with concatenated = [ts[0]]
Enter(ts) ==
    IF IsEmptyInput(ts)
    THEN /\ pc' = "returned"
         /\ concatenated' = <<>>
         /\ idx' = 0
    ELSE /\ pc' = "loop"
         /\ concatenated' = Seed(ts)
         /\ idx' = 2

\* concat_close_transcripts(transcripts, threshold) is called
Call ==
    /\ pc = "input"
    /\ transcripts' = fragments
    /\ Enter(fragments)
    /\ UNCHANGED <<threshold, fragments, error, pass, first_output>>
    /\ UNCHANGED exceptMerger

\* utils.py:73-94  one iteration that merges current into the open segment
LoopMerge ==
    /\ pc = "loop"
    /\ idx <= Len(transcripts)
    /\ LET current == transcripts[idx]
           previous == Previous(concatenated)
       IN  /\ MergeCondition(previous, current, threshold)
           /\ ~TranslatedKeyError(previous, current)
           /\ concatenated' = MergeCurrent(concatenated, current, threshold)
    /\ idx' = idx + 1
    /\ UNCHANGED <<threshold, fragments, transcripts, pc, error, pass, first_output>>
    /\ UNCHANGED exceptMerger

\* utils.py:73-91  one iteration whose merge raises KeyError at line 91
LoopMergeRaise ==
    /\ pc = "loop"
    /\ idx <= Len(transcripts)
    /\ LET current == transcripts[idx]
           previous == Previous(concatenated)
       IN  /\ MergeCondition(previous, current, threshold)
           /\ TranslatedKeyError(previous, current)
           /\ concatenated' = MergeCurrentUntilError(concatenated, current, threshold)
    /\ pc' = "raised"
    /\ error' = "KeyError"
    /\ UNCHANGED <<threshold, fragments, transcripts, idx, pass, first_output>>
    /\ UNCHANGED exceptMerger

\* utils.py:73-84, 95-96  one iteration that closes the open segment
LoopAppend ==
    /\ pc = "loop"
    /\ idx <= Len(transcripts)
    /\ LET current == transcripts[idx]
           previous == Previous(concatenated)
       IN  /\ ~MergeCondition(previous, current, threshold)
           /\ concatenated' = AppendCurrent(concatenated, current, threshold)
    /\ idx' = idx + 1
    /\ UNCHANGED <<threshold, fragments, transcripts, pc, error, pass, first_output>>
    /\ UNCHANGED exceptMerger

\* utils.py:98  return concatenated
Return ==
    /\ pc = "loop"
    /\ idx > Len(transcripts)
    /\ pc' = "returned"
    /\ UNCHANGED <<threshold, fragments, transcripts, concatenated, idx, error, pass, first_output>>
    /\ UNCHANGED exceptMerger

\* the caller applies concat_close_transcripts to the list it returned, with
\* the same threshold
Remerge ==
    /\ pc = "returned"
    /\ pass = 1
    /\ pass' = 2
    /\ first_output' = concatenated
    /\ transcripts' = concatenated
    /\ Enter(concatenated)
    /\ UNCHANGED <<threshold, fragments, error>>
    /\ UNCHANGED exceptMerger

Next ==
    \/ AddFragment
    \/ Call
    \/ LoopMerge
    \/ LoopMergeRaise
    \/ LoopAppend
    \/ Return
    \/ Remerge

Spec == Init /\ [][Next]_vars

(***************************************************************************)
(* The timed audio assembler: audio_processing.insert_audio_at_timestamps, *)
(* called at main.py:166-170.  Its module is not among the sources; it is  *)
(* modelled from section 4.2 of the specification (Contract 1).            *)
(***************************************************************************)
Max(a, b) == IF a >= b THEN a ELSE b

\* distance of a segment's start from the previous segment's start: main
\* passes the list sorted by start (main.py:147)
SegmentSteps == {0, 4, 12}

\* measured durations of the synthesized clips, in ticks
ClipDurations == {2, 6, 10}

\* durations of the background track, in ticks
BackgroundDurations == {8, 40}

\* mutant of PlacementStart: the clip is put at its caption time
PlacementStartAtCaption(start, prevEnd) == start

\* placement policy: max(segment.start, previous_placement_end)
PlacementStart(start, prevEnd) == Max(start, prevEnd)

\* the timeline grows when a clip ends after it
ExtendTimeline(duration, clipEnd) == Max(duration, clipEnd)

\* the merger is not running
MergerIdle ==
    /\ threshold = 7
    /\ fragments = <<>>
    /\ transcripts = <<>>
    /\ concatenated = <<>>
    /\ idx = 0
    /\ pc = "idle"
    /\ error = "none"
    /\ pass = 1
    /\ first_output = <<>>

AssemblerInit ==
    /\ MergerIdle
    /\ MainIdle
    /\ TranslateIdle
    /\ TtsIdle
    /\ MuxIdle
    /\ utterance_metadata = <<>>
    /\ background_duration \in BackgroundDurations
    /\ timeline_duration = 0
    /\ previous_end = 0
    /\ placements = <<>>
    /\ seg = 0
    /\ asm_pc = "input"

\* main's segment list, in ascending start order, each segment marked
\* for_dubbing or not
AddSegment ==
    /\ asm_pc = "input"
    /\ Len(utterance_metadata) < MaxSegments
    /\ \E step \in SegmentSteps, dub \in BOOLEAN :
         LET i == Len(utterance_metadata) + 1
             start == IF i = 1 THEN step ELSE utterance_metadata[i - 1].start + step
         IN  utterance_metadata' =
                Append(utterance_metadata, [start |-> start, for_dubbing |-> dub])
    /\ UNCHANGED <<background_duration, timeline_duration, previous_end, placements, seg, asm_pc>>
    /\ UNCHANGED exceptAssembler

\* the call: an empty timeline of background_duration silence
InsertAudioStart ==
    /\ asm_pc = "input"
    /\ timeline_duration' = background_duration
    /\ previous_end' = 0
    /\ placements' = <<>>
    /\ seg' = 1
    /\ asm_pc' = "placing"
    /\ UNCHANGED <<utterance_metadata, background_duration>>
    /\ UNCHANGED exceptAssembler

\* a segment with for_dubbing = true whose clip is read: it is placed
PlaceClip ==
    /\ asm_pc = "placing"
    /\ seg <= Len(utterance_metadata)
    /\ utterance_metadata[seg].for_dubbing
    /\ \E clip_duration \in ClipDurations :
         LET at == PlacementStart(utterance_metadata[seg].start, previous_end)
         IN  /\ placements' = Append(placements,
                    [segment |-> seg, start |-> at, duration |-> clip_duration])
             /\ previous_end' = at + clip_duration
             /\ timeline_duration' = ExtendTimeline(timeline_duration, at + clip_duration)
    /\ seg' = seg + 1
    /\ UNCHANGED <<utterance_metadata, background_duration, asm_pc>>
    /\ UNCHANGED exceptAssembler

\* a segment without for_dubbing = true contributes silence
SkipNotForDubbing ==
    /\ asm_pc = "placing"
    /\ seg <= Len(utterance_metadata)
    /\ ~utterance_metadata[seg].for_dubbing
    /\ seg' = seg + 1
    /\ UNCHANGED <<utterance_metadata, background_duration, timeline_duration,
                   previous_end, placements, asm_pc>>
    /\ UNCHANGED exceptAssembler

\* a segment whose clip file is missing or unreadable is logged and skipped
SkipMissingClip ==
    /\ asm_pc = "placing"
    /\ seg <= Len(utterance_metadata)
    /\ utterance_metadata[seg].for_dubbing
    /\ seg' = seg + 1
    /\ UNCHANGED <<utterance_metadata, background_duration, timeline_duration,
                   previous_end, placements, asm_pc>>
    /\ UNCHANGED exceptAssembler

\* the assembled vocals track is returned
InsertAudioReturn ==
    /\ asm_pc = "placing"
    /\ seg > Len(utterance_metadata)
    /\ asm_pc' = "done"
    /\ UNCHANGED <<utterance_metadata, background_duration, timeline_duration,
                   previous_end, placements, seg>>
    /\ UNCHANGED exceptAssembler

AssemblerNext ==
    \/ AddSegment
    \/ InsertAudioStart
    \/ PlaceClip
    \/ SkipNotForDubbing
    \/ SkipMissingClip
    \/ InsertAudioReturn

AssemblerSpec == AssemblerInit /\ [][AssemblerNext]_vars

(***************************************************************************)
(* VideoProcessing.combine_audio_video: the mux of the original video     *)
(* with the dubbed audio track.                                            *)
(***************************************************************************)
VideoDurations == {10, 20, 30, 40, 50, 60}
AudioDurations == {8, 20, 28, 40, 52, 64}

video_file == "video.mp4"
dubbed_audio_file == "dubbed_audio.mp3"
dubbed_video_file == "dubbed_video.mp4"
temp_audio == "temp_padded_audio.aac"

\* the command as first built: video is input 0, the dubbed audio input 1
FfmpegCmd ==
    << "ffmpeg", "-y", "-i", video_file, "-i", dubbed_audio_file,
       "-map", "0:v:0", "-map", "1:a:0", "-c:v", "copy", "-c:a", "aac",
       "-b:a", "192k", "-shortest", "-movflags", "+faststart",
       "-threads", "0", dubbed_video_file >>

pad_cmd ==
    << "ffmpeg", "-y", "-i", dubbed_audio_file, "-f", "lavfi", "-i",
       "anullsrc=channel_layout=stereo:sample_rate=44100:duration=pad_duration",
       "-filter_complex", "[0:a][1:a]concat=n=2:v=0:a=1",
       "-c:a", "aac", "-b:a", "192k", temp_audio >>

\* Python's list[k] = v, k counted from 0
SetItem(list, k, v) == [list EXCEPT ![k + 1] = v]

\* "Update the command to use padded audio"
UsePaddedAudio(cmd) == SetItem(cmd, 4, temp_audio)

\* the input files of a command line: the argument after each -i
RECURSIVE Inputs(_)
Inputs(cmd) ==
    IF Len(cmd) < 2 THEN <<>>
    ELSE IF Head(cmd) = "-i" THEN <<cmd[2]>> \o Inputs(Tail(Tail(cmd)))
    ELSE Inputs(Tail(cmd))

MuxInit ==
    /\ MergerIdle
    /\ AssemblerIdle
    /\ MainIdle
    /\ TranslateIdle
    /\ TtsIdle
    /\ video_duration \in VideoDurations
    /\ audio_duration \in AudioDurations
    /\ ffmpeg_cmd = <<>>
    /\ executed = <<>>
    /\ mux_pc = "called"

\* the durations are read and the command list is built
BuildCommand ==
    /\ mux_pc = "called"
    /\ ffmpeg_cmd' = FfmpegCmd
    /\ mux_pc' = "built"
    /\ UNCHANGED <<video_duration, audio_duration, executed>>
    /\ UNCHANGED exceptMux

\* audio shorter than video: the padding command runs and the command list
\* is updated
PadAudio ==
    /\ mux_pc = "built"
    /\ audio_duration < video_duration
    /\ executed' = Append(executed, pad_cmd)
    /\ ffmpeg_cmd' = UsePaddedAudio(ffmpeg_cmd)
    /\ mux_pc' = "ready"
    /\ UNCHANGED <<video_duration, audio_duration>>
    /\ UNCHANGED exceptMux

\* the padding command exits non-zero: check=True raises outside the try
PadAudioRaise ==
    /\ mux_pc = "built"
    /\ audio_duration < video_duration
    /\ executed' = Append(executed, pad_cmd)
    /\ mux_pc' = "raised"
    /\ UNCHANGED <<video_duration, audio_duration, ffmpeg_cmd>>
    /\ UNCHANGED exceptMux

NoPadding ==
    /\ mux_pc = "built"
    /\ ~(audio_duration < video_duration)
    /\ mux_pc' = "ready"
    /\ UNCHANGED <<video_duration, audio_duration, ffmpeg_cmd, executed>>
    /\ UNCHANGED exceptMux

\* the mux command runs and exits zero; it maps stream 1:a:0, so it needs
\* two inputs
RunFfmpeg ==
    /\ mux_pc = "ready"
    /\ Len(Inputs(ffmpeg_cmd)) = 2
    /\ executed' = Append(executed, ffmpeg_cmd)
    /\ mux_pc' = "returned"
    /\ UNCHANGED <<video_duration, audio_duration, ffmpeg_cmd>>
    /\ UNCHANGED exceptMux

\* the mux command exits non-zero: CalledProcessError is re-raised
RunFfmpegRaise ==
    /\ mux_pc = "ready"
    /\ executed' = Append(executed, ffmpeg_cmd)
    /\ mux_pc' = "raised"
    /\ UNCHANGED <<video_duration, audio_duration, ffmpeg_cmd>>
    /\ UNCHANGED exceptMux

MuxNext ==
    \/ BuildCommand
    \/ PadAudio
    \/ PadAudioRaise
    \/ NoPadding
    \/ RunFfmpeg
    \/ RunFfmpegRaise

MuxSpec == MuxInit /\ [][MuxNext]_vars

(***************************************************************************)
(* translate_transcripts and TranslationGemini.  A string is the sequence  *)
(* of its tokens: the break marker, a newline, or a piece of text.         *)
(***************************************************************************)
BREAK_MARKER == 0
Newline == -1

\* parts per request to the translation service
STEPS == 20

\* most invocations of _translate_text for one chunk that are followed
MaxAttempts == 4

\* str.split(_BREAK_MARKER): the empty string splits into one empty part
Split(str) ==
    LET markers == {j \in 1..Len(str) : str[j] = BREAK_MARKER}
        n == Cardinality(markers)
        \* position of the k-th marker; 0 and Len(str) + 1 bound the string
        Pos(k) == IF k = 0 THEN 0
                  ELSE IF k = n + 1 THEN Len(str) + 1
                  ELSE CHOOSE p \in markers :
                          Cardinality({q \in markers : q <= p}) = k
    IN [k \in 1..(n + 1) |-> SubSeq(str, Pos(k - 1) + 1, Pos(k) - 1)]

\* _BREAK_MARKER.join(list)
RECURSIVE Join(_)
Join(list) ==
    IF list = <<>> THEN <<>>
    ELSE IF Len(list) = 1 THEN list[1]
    ELSE LET half == Len(list) \div 2 IN
         Join(SubSeq(list, 1, half)) \o <<BREAK_MARKER>>
            \o Join(SubSeq(list, half + 1, Len(list)))

\* str.count(_BREAK_MARKER)
Count(str) == Cardinality({j \in 1..Len(str) : str[j] = BREAK_MARKER})

\* str.strip()
RECURSIVE StripLeft(_)
StripLeft(str) ==
    IF str # <<>> /\ Head(str) = Newline THEN StripLeft(Tail(str)) ELSE str

RECURSIVE StripRight(_)
StripRight(str) ==
    IF str # <<>> /\ str[Len(str)] = Newline
    THEN StripRight(SubSeq(str, 1, Len(str) - 1)) ELSE str

Strip(str) == StripLeft(StripRight(str))

\* parts[i : i + STEPS], i counted from 0
Slice(list, i) ==
    SubSeq(list, i + 1, IF i + STEPS < Len(list) THEN i + STEPS ELSE Len(list))

\* a reply of the service that keeps every marker in place: each piece of
\* text becomes its translation
Translation(token) == IF token > 0 THEN token + 100 ELSE token
FaithfulReply(text) == [j \in 1..Len(text) |-> Translation(text[j])]

\* the model argument of the retry after a marker-count mismatch
RetryModel(m) ==
    IF m = "gemini-2.5-flash-lite" THEN "gemini-2.5-flash"
    ELSE IF m = "None" THEN "gemini-2.5-flash-lite" ELSE "None"

\* all_texts of translate_transcripts
AllTexts(items) == Join([j \in 1..Len(items) |-> items[j].text \o <<Newline>>])

\* the result list built after the assertion
Results(items, texts) ==
    [j \in 1..Len(items) |->
        [start |-> items[j].start, end |-> items[j].end, text |-> items[j].text,
         translated_text |-> Strip(texts[j])]]

\* sizes of the batches handed to translate_transcripts: none, one chunk,
\* exactly one chunk, and two and three chunks
BatchSizes == {0, 1, 2, 20, 21, 40, 41}

Batch(n) == [j \in 1..n |-> [start |-> 2 * j, end |-> 2 * j + 1, text |-> <<j>>]]

TranslateInit ==
    /\ MergerIdle
    /\ AssemblerIdle
    /\ MainIdle
    /\ TtsIdle
    /\ MuxIdle
    /\ \E n \in BatchSizes : batch = Batch(n)
    /\ parts = <<>>
    /\ chunk = 0
    /\ script_splits = <<>>
    /\ model = "None"
    /\ attempts = 0
    /\ mismatches = 0
    /\ translated_texts = <<>>
    /\ results = <<>>
    /\ translate_pc = "called"

\* translate_transcripts joins the texts; _translate_script splits them
TranslateScript ==
    /\ translate_pc = "called"
    /\ parts' = Split(AllTexts(batch))
    /\ chunk' = 0
    /\ script_splits' = <<>>
    /\ translate_pc' = "chunking"
    /\ UNCHANGED <<batch, model, attempts, mismatches, translated_texts, results>>
    /\ UNCHANGED exceptTranslate

\* the loop of _translate_script calls _translate_text for the next chunk
TranslateChunk ==
    /\ translate_pc = "chunking"
    /\ chunk < Len(parts)
    /\ model' = "None"
    /\ attempts' = 1
    /\ mismatches' = 0
    /\ translate_pc' = "requesting"
    /\ UNCHANGED <<batch, parts, chunk, script_splits, translated_texts, results>>
    /\ UNCHANGED exceptTranslate

\* the reply has as many markers as the chunk: it is returned
ReplyMatches ==
    /\ translate_pc = "requesting"
    /\ LET text == Join(Slice(parts, chunk))
           translated_text == Strip(FaithfulReply(text))
       IN /\ Count(translated_text) = Count(text)
          /\ script_splits' = Append(script_splits, translated_text)
    /\ chunk' = chunk + STEPS
    /\ translate_pc' = "chunking"
    /\ UNCHANGED <<batch, parts, model, attempts, mismatches, translated_texts, results>>
    /\ UNCHANGED exceptTranslate

\* the reply has a different number of markers: sleep, then call again
\* with the next model
ReplyMismatch ==
    /\ translate_pc = "requesting"
    /\ attempts < MaxAttempts
    /\ mismatches' = mismatches + 1
    /\ attempts' = attempts + 1
    /\ model' = RetryModel(model)
    /\ UNCHANGED <<batch, parts, chunk, script_splits, translated_texts, results,
                   translate_pc>>
    /\ UNCHANGED exceptTranslate

\* errors.ClientError: sleep, then call again with the default model
ReplyClientError ==
    /\ translate_pc = "requesting"
    /\ attempts < MaxAttempts
    /\ attempts' = attempts + 1
    /\ model' = "None"
    /\ UNCHANGED <<batch, parts, chunk, script_splits, mismatches, translated_texts,
                   results, translate_pc>>
    /\ UNCHANGED exceptTranslate

\* any other exception is logged and raised
ReplyException ==
    /\ translate_pc = "requesting"
    /\ translate_pc' = "raised"
    /\ UNCHANGED <<batch, parts, chunk, script_splits, model, attempts, mismatches,
                   translated_texts, results>>
    /\ UNCHANGED exceptTranslate

\* _translate_script returns; translate_transcripts splits, asserts and
\* builds the results
TranslateReturn ==
    /\ translate_pc = "chunking"
    /\ chunk >= Len(parts)
    /\ translated_texts' = Split(Join(script_splits))
    /\ IF Len(translated_texts') = Len(batch)
       THEN /\ results' = Results(batch, translated_texts')
            /\ translate_pc' = "returned"
       ELSE /\ results' = <<>>
            /\ translate_pc' = "AssertionError"
    /\ UNCHANGED <<batch, parts, chunk, script_splits, model, attempts, mismatches>>
    /\ UNCHANGED exceptTranslate

TranslateNext ==
    \/ TranslateScript
    \/ TranslateChunk
    \/ ReplyMatches
    \/ ReplyMismatch
    \/ ReplyClientError
    \/ ReplyException
    \/ TranslateReturn

TranslateSpec == TranslateInit /\ [][TranslateNext]_vars

(***************************************************************************)
(* TextToSpeechGemini._convert_text_to_speech: one clip is requested from  *)
(* the speech service and written to its output file.                      *)
(***************************************************************************)
\* most invocations of _convert_text_to_speech for one clip that are followed
MaxTtsCalls == 4

\* most audio chunks the service streams in reply to one request
MaxChunks == 2

TtsInit ==
    /\ MergerIdle
    /\ AssemblerIdle
    /\ MainIdle
    /\ TranslateIdle
    /\ MuxIdle
    /\ tts_calls = 1
    /\ write_failures = 0
    /\ client_errors = 0
    /\ chunks = 0
    /\ output_file = "absent"
    /\ tts_pc = "streaming"

\* one chunk of the reply is appended to full_audio_data
ReceiveChunk ==
    /\ tts_pc = "streaming"
    /\ chunks < MaxChunks
    /\ chunks' = chunks + 1
    /\ UNCHANGED <<tts_calls, write_failures, client_errors, output_file, tts_pc>>
    /\ UNCHANGED exceptTts

\* the stream ends
StreamEnds ==
    /\ tts_pc = "streaming"
    /\ tts_pc' = "writing"
    /\ UNCHANGED <<tts_calls, write_failures, client_errors, chunks, output_file>>
    /\ UNCHANGED exceptTts

\* the file is opened and written; the filename is returned
WriteFile ==
    /\ tts_pc = "writing"
    /\ output_file' = "written"
    /\ tts_pc' = "returned"
    /\ UNCHANGED <<tts_calls, write_failures, client_errors, chunks>>
    /\ UNCHANGED exceptTts

\* open or write raises: the handler sleeps and calls
\* _convert_text_to_speech again; a failed write leaves a truncated file
WriteFails ==
    /\ tts_pc = "writing"
    /\ tts_calls < MaxTtsCalls
    /\ output_file' \in {output_file, "partial"}
    /\ write_failures' = write_failures + 1
    /\ tts_calls' = tts_calls + 1
    /\ chunks' = 0
    /\ tts_pc' = "streaming"
    /\ UNCHANGED client_errors
    /\ UNCHANGED exceptTts

\* errors.ClientError from the service: sleep, then call again
StreamClientError ==
    /\ tts_pc = "streaming"
    /\ tts_calls < MaxTtsCalls
    /\ client_errors' = client_errors + 1
    /\ write_failures' = 0
    /\ tts_calls' = tts_calls + 1
    /\ chunks' = 0
    /\ UNCHANGED <<output_file, tts_pc>>
    /\ UNCHANGED exceptTts

\* any other exception from the service is logged and raised
StreamException ==
    /\ tts_pc = "streaming"
    /\ tts_pc' = "raised"
    /\ UNCHANGED <<tts_calls, write_failures, client_errors, chunks, output_file>>
    /\ UNCHANGED exceptTts

TtsNext ==
    \/ ReceiveChunk
    \/ StreamEnds
    \/ WriteFile
    \/ WriteFails
    \/ StreamClientError
    \/ StreamException

TtsSpec == TtsInit /\ [][TtsNext]_vars

(***************************************************************************)
(* main: the orchestrator.  One run loads the metadata file, downloads,    *)
(* fetches and merges the captions, synthesizes one clip per segment in a  *)
(* worker pool, persists, assembles and muxes.  Runs follow one another on *)
(* the same output directory.                                              *)
(***************************************************************************)
\* runs of main on one output directory
MaxRuns == 2

\* concat_close_transcripts as a function of its argument: the loop of
\* lines 73-96 from index k on
RECURSIVE ConcatFrom(_, _, _, _)
ConcatFrom(ts, conc, k, thr) ==
    IF k > Len(ts) THEN conc
    ELSE ConcatFrom(ts,
                    IF MergeCondition(Previous(conc), ts[k], thr)
                    THEN MergeCurrent(conc, ts[k], thr)
                    ELSE AppendCurrent(conc, ts[k], thr),
                    k + 1, thr)

ConcatCloseTranscripts(ts, thr) ==
    IF IsEmptyInput(ts) THEN ts ELSE ConcatFrom(ts, Seed(ts), 2, thr)

\* threshold=3.5 of the call in main, in ticks
MainThreshold == 7

\* the caption lists a video is drawn from: three short captions half a
\* second apart and a fourth at 5.5 s; two and three captions ten seconds
\* apart; none
Captions ==
    { << Fragment(1, 0, [dur |-> 1, words |-> 2, hasTT |-> TRUE]),
         Fragment(2, 1, [dur |-> 1, words |-> 2, hasTT |-> TRUE]),
         Fragment(3, 2, [dur |-> 1, words |-> 2, hasTT |-> TRUE]),
         Fragment(4, 11, [dur |-> 1, words |-> 3, hasTT |-> TRUE]) >>,
      << Fragment(1, 0, [dur |-> 1, words |-> 3, hasTT |-> TRUE]),
         Fragment(2, 20, [dur |-> 1, words |-> 3, hasTT |-> TRUE]) >>,
      << Fragment(1, 0, [dur |-> 1, words |-> 3, hasTT |-> TRUE]),
         Fragment(2, 20, [dur |-> 1, words |-> 3, hasTT |-> TRUE]),
         Fragment(3, 40, [dur |-> 1, words |-> 3, hasTT |-> TRUE]) >>,
      << >> }

\* the output path of the worker for item number i (counted from 0)
OutputPath(i, item) ==
    [index |-> i + 1, start |-> FloorSeconds(item.start), end |-> FloorSeconds(item.end)]

\* the item as the worker returns it
Synthesized(i, item) ==
    [start |-> item.start, end |-> item.end, text |-> item.text,
     translated_text |-> item.translated_text,
     has_translated |-> item.has_translated,
     dubbed_path |-> OutputPath(i, item), for_dubbing |-> TRUE]

\* sorted(list, key=lambda x: x["start"]): a stable sort
RECURSIVE InsertByStart(_, _)
InsertByStart(sorted, item) ==
    IF sorted = <<>> THEN <<item>>
    ELSE IF sorted[Len(sorted)].start <= item.start THEN Append(sorted, item)
    ELSE Append(InsertByStart(SubSeq(sorted, 1, Len(sorted) - 1), item),
                sorted[Len(sorted)])

RECURSIVE SortedByStart(_)
SortedByStart(list) ==
    IF list = <<>> THEN <<>>
    ELSE InsertByStart(SortedByStart(SubSeq(list, 1, Len(list) - 1)), list[Len(list)])

Finished(future) == future.state \in {"returned", "raised"}

\* mutant of TtsGateOpen: the gate ignores the flag
TtsGateAlwaysOpen(md) == TRUE

\* main.py:118  if not download_metadata.get("tts_complete", False)
TtsGateOpen(md) == ~md.tts_complete

\* mutant of CollectResult: the item of a failed future is kept
CollectResultOrItem(updated, i, future) == Append(updated, Synthesized(i, future.item))

\* main.py:141-144  the result of a future is appended; an exception is printed
CollectResult(updated, i, future) ==
    IF future.state = "returned" THEN Append(updated, Synthesized(i, future.item))
    ELSE updated

\* mutant of AllCollected: the loop ends with the first result
SomeCollected(fs) == fs = <<>> \/ \E i \in 1..Len(fs) : fs[i].collected

\* the as_completed loop has yielded every future and the executor has shut down
AllCollected(fs) == \A i \in 1..Len(fs) : Finished(fs[i]) /\ fs[i].collected

\* yt_download lines 113-124: the files found on disk, or else the files
\* download_subtitles fetched
SubtitlePaths(files) ==
    (IF "source" \in files THEN <<"source">> ELSE <<>>)
        \o (IF "target" \in files THEN <<"target">> ELSE <<>>)

MainInit ==
    /\ MergerIdle
    /\ AssemblerIdle
    /\ TranslateIdle
    /\ TtsIdle
    /\ MuxIdle
    /\ captions \in Captions
    /\ metadata_file = NoMetadata
    /\ subtitle_files = {}
    /\ clip_files = {}
    /\ completed_clips = {}
    /\ run = 1
    /\ main_pc = "start"
    /\ main_error = "none"
    /\ download_metadata = NoMetadata
    /\ subtitle_paths = <<>>
    /\ parsed = "none"
    /\ main_transcripts = <<>>
    /\ futures = <<>>
    /\ updated_transcripts = <<>>
    /\ synth_calls = 0
    /\ writers = {}
    /\ gate = "unknown"
    /\ all_synthesized = FALSE

\* main.py:41-50: the metadata file, if there is one, is read once
LoadMetadata ==
    /\ main_pc = "start"
    /\ download_metadata' = metadata_file
    /\ subtitle_paths' = metadata_file.subtitle_paths
    /\ main_pc' = "loaded"
    /\ UNCHANGED <<captions, metadata_file, subtitle_files, clip_files,
                   completed_clips, run, main_error, parsed, main_transcripts,
                   futures, updated_transcripts, synth_calls, writers, gate,
                   all_synthesized>>
    /\ UNCHANGED assemblerVars
    /\ UNCHANGED exceptMain

\* main.py:52: both paths are known, nothing is downloaded
SkipDownload ==
    /\ main_pc = "loaded"
    /\ download_metadata.paths
    /\ main_pc' = "fetch"
    /\ UNCHANGED <<captions, metadata_file, subtitle_files, clip_files,
                   completed_clips, run, main_error, download_metadata,
                   subtitle_paths, parsed, main_transcripts, futures,
                   updated_transcripts, synth_calls, writers, gate,
                   all_synthesized>>
    /\ UNCHANGED assemblerVars
    /\ UNCHANGED exceptMain

\* main.py:52-68 and yt_download: video and audio are downloaded; the
\* subtitle files already on disk are listed, or, when there is none,
\* download_subtitles fetches each language, appending the path of every
\* download that did not raise; the orchestrator writes the metadata file
YtDownload ==
    /\ main_pc = "loaded"
    /\ ~download_metadata.paths
    /\ \E fetched \in SUBSET {"source", "target"} :
          /\ subtitle_files' = IF subtitle_files = {} THEN fetched ELSE subtitle_files
          /\ subtitle_paths' = SubtitlePaths(subtitle_files')
    /\ metadata_file' = [paths |-> TRUE, subtitle_paths |-> subtitle_paths',
                         transcripts |-> <<>>, tts_complete |-> FALSE]
    /\ writers' = writers \cup {"orchestrator"}
    /\ main_pc' = "fetch"
    /\ UNCHANGED <<captions, clip_files, completed_clips, run, main_error,
                   download_metadata, parsed, main_transcripts, futures,
                   updated_transcripts, synth_calls, gate, all_synthesized>>
    /\ UNCHANGED assemblerVars
    /\ UNCHANGED exceptMain

\* download_video or download_audio raises
YtDownloadRaise ==
    /\ main_pc = "loaded"
    /\ ~download_metadata.paths
    /\ main_error' = "download"
    /\ main_pc' = "raised"
    /\ UNCHANGED <<captions, metadata_file, subtitle_files, clip_files,
                   completed_clips, run, download_metadata, subtitle_paths,
                   parsed, main_transcripts, futures, updated_transcripts,
                   synth_calls, writers, gate, all_synthesized>>
    /\ UNCHANGED assemblerVars
    /\ UNCHANGED exceptMain

\* main.py:70-71: the stored transcripts are used
UseStoredTranscripts ==
    /\ main_pc = "fetch"
    /\ download_metadata.transcripts # <<>>
    /\ main_transcripts' = download_metadata.transcripts
    /\ main_pc' = "gate"
    /\ UNCHANGED <<captions, metadata_file, subtitle_files, clip_files,
                   completed_clips, run, main_error, download_metadata,
                   subtitle_paths, parsed, futures, updated_transcripts,
                   synth_calls, writers, gate, all_synthesized>>
    /\ UNCHANGED assemblerVars
    /\ UNCHANGED exceptMain

\* main.py:71-116: no stored transcripts: the captions are fetched (from the
\* transcript service when there is no subtitle file, else from the file
\* main takes for the source or the target one), translated if need be,
\* merged, and written to the metadata file without the tts_complete key
FetchTranscripts ==
    /\ main_pc = "fetch"
    /\ download_metadata.transcripts = <<>>
    /\ \E lang \in {"source", "target"} :
          /\ Len(subtitle_paths) = 1 => lang = subtitle_paths[1]
          /\ Len(subtitle_paths) = 2 => lang = subtitle_paths[2]
          \* translate_transcripts runs unless the target text was fetched
          /\ (Len(subtitle_paths) = 1 \/ (Len(subtitle_paths) = 0 /\ lang = "source"))
                => captions # <<>>
          /\ parsed' = lang
    /\ main_transcripts' = ConcatCloseTranscripts(captions, MainThreshold)
    /\ metadata_file' = [paths |-> TRUE, subtitle_paths |-> subtitle_paths,
                         transcripts |-> main_transcripts', tts_complete |-> FALSE]
    /\ writers' = writers \cup {"orchestrator"}
    /\ main_pc' = "gate"
    /\ UNCHANGED <<captions, subtitle_files, clip_files, completed_clips, run,
                   main_error, download_metadata, subtitle_paths, futures,
                   updated_transcripts, synth_calls, gate, all_synthesized>>
    /\ UNCHANGED assemblerVars
    /\ UNCHANGED exceptMain

\* translate_transcripts raises: its assertion fails on an empty batch, or
\* the translation service raises
FetchTranscriptsRaise ==
    /\ main_pc = "fetch"
    /\ download_metadata.transcripts = <<>>
    /\ Len(subtitle_paths) <= 1
    /\ parsed' = IF Len(subtitle_paths) = 1 THEN subtitle_paths[1] ELSE "source"
    /\ main_error' = IF captions = <<>> THEN "AssertionError" ELSE "translation"
    /\ main_pc' = "raised"
    /\ UNCHANGED <<captions, metadata_file, subtitle_files, clip_files,
                   completed_clips, run, download_metadata, subtitle_paths,
                   main_transcripts, futures, updated_transcripts, synth_calls,
                   writers, gate, all_synthesized>>
    /\ UNCHANGED assemblerVars
    /\ UNCHANGED exceptMain

\* main.py:118: the flag loaded at the start of the run is set
SkipSynthesis ==
    /\ main_pc = "gate"
    /\ ~TtsGateOpen(download_metadata)
    /\ gate' = "skipped"
    /\ main_pc' = "assemble"
    /\ UNCHANGED <<captions, metadata_file, subtitle_files, clip_files,
                   completed_clips, run, main_error, download_metadata,
                   subtitle_paths, parsed, main_transcripts, futures,
                   updated_transcripts, synth_calls, writers, all_synthesized>>
    /\ UNCHANGED assemblerVars
    /\ UNCHANGED exceptMain

\* main.py:121-138: one task per segment is submitted to the pool
SubmitAll ==
    /\ main_pc = "gate"
    /\ TtsGateOpen(download_metadata)
    /\ gate' = "open"
    /\ updated_transcripts' = <<>>
    /\ futures' = [i \in 1..Len(main_transcripts) |->
                      [item |-> main_transcripts[i], state |-> "pending",
                       collected |-> FALSE]]
    /\ main_pc' = "collect"
    /\ UNCHANGED <<captions, metadata_file, subtitle_files, clip_files,
                   completed_clips, run, main_error, download_metadata,
                   subtitle_paths, parsed, main_transcripts, synth_calls,
                   writers, all_synthesized>>
    /\ UNCHANGED assemblerVars
    /\ UNCHANGED exceptMain

\* synthesize_speech_worker, lines 160-169: the single worker thread takes
\* the next task; the clip file exists, so the item is returned at once
WorkerShortCircuit(i) ==
    /\ main_pc = "collect"
    /\ futures[i].state = "pending"
    /\ \A j \in 1..(i - 1) : Finished(futures[j])
    /\ OutputPath(i - 1, futures[i].item) \in clip_files
    /\ futures' = [futures EXCEPT ![i].state = "returned"]
    /\ UNCHANGED <<captions, metadata_file, subtitle_files, clip_files,
                   completed_clips, run, main_pc, main_error,
                   download_metadata, subtitle_paths, parsed, main_transcripts,
                   updated_transcripts, synth_calls, writers, gate,
                   all_synthesized>>
    /\ UNCHANGED assemblerVars
    /\ UNCHANGED exceptMain

\* lines 160-171: no clip file: the worker calls the speech service
WorkerCall(i) ==
    /\ main_pc = "collect"
    /\ futures[i].state = "pending"
    /\ \A j \in 1..(i - 1) : Finished(futures[j])
    /\ OutputPath(i - 1, futures[i].item) \notin clip_files
    /\ synth_calls' = synth_calls + 1
    /\ futures' = [futures EXCEPT ![i].state = "running"]
    /\ UNCHANGED <<captions, metadata_file, subtitle_files, clip_files,
                   completed_clips, run, main_pc, main_error,
                   download_metadata, subtitle_paths, parsed, main_transcripts,
                   updated_transcripts, writers, gate, all_synthesized>>
    /\ UNCHANGED assemblerVars
    /\ UNCHANGED exceptMain

\* lines 171-181: the clip is written and trimmed, the item returned
WorkerReturn(i) ==
    /\ main_pc = "collect"
    /\ futures[i].state = "running"
    /\ clip_files' = clip_files \cup {OutputPath(i - 1, futures[i].item)}
    /\ completed_clips' = completed_clips \cup {OutputPath(i - 1, futures[i].item)}
    /\ futures' = [futures EXCEPT ![i].state = "returned"]
    /\ UNCHANGED <<captions, metadata_file, subtitle_files, run, main_pc,
                   main_error, download_metadata, subtitle_paths, parsed,
                   main_transcripts, updated_transcripts, synth_calls, writers,
                   gate, all_synthesized>>
    /\ UNCHANGED assemblerVars
    /\ UNCHANGED exceptMain

\* the synthesis raises, before the clip file is written or (in the
\* silence trimming) after it, the untrimmed file staying on disk
WorkerRaise(i) ==
    /\ main_pc = "collect"
    /\ futures[i].state = "running"
    /\ \E written \in BOOLEAN :
          clip_files' = IF written
                        THEN clip_files \cup {OutputPath(i - 1, futures[i].item)}
                        ELSE clip_files
    /\ futures' = [futures EXCEPT ![i].state = "raised"]
    /\ UNCHANGED <<captions, metadata_file, subtitle_files, completed_clips,
                   run, main_pc, main_error, download_metadata, subtitle_paths,
                   parsed, main_transcripts, updated_transcripts, synth_calls,
                   writers, gate, all_synthesized>>
    /\ UNCHANGED assemblerVars
    /\ UNCHANGED exceptMain

\* main.py:140-144: as_completed yields a finished future
Collect(i) ==
    /\ main_pc = "collect"
    /\ Finished(futures[i])
    /\ ~futures[i].collected
    /\ updated_transcripts' = CollectResult(updated_transcripts, i - 1, futures[i])
    /\ futures' = [futures EXCEPT ![i].collected = TRUE]
    /\ UNCHANGED <<captions, metadata_file, subtitle_files, clip_files,
                   completed_clips, run, main_pc, main_error,
                   download_metadata, subtitle_paths, parsed, main_transcripts,
                   synth_calls, writers, gate, all_synthesized>>
    /\ UNCHANGED assemblerVars
    /\ UNCHANGED exceptMain

\* main.py:123-144: the loop and the with block end
ExitPool ==
    /\ main_pc = "collect"
    /\ AllCollected(futures)
    /\ main_pc' = "persist"
    /\ UNCHANGED <<captions, metadata_file, subtitle_files, clip_files,
                   completed_clips, run, main_error, download_metadata,
                   subtitle_paths, parsed, main_transcripts, futures,
                   updated_transcripts, synth_calls, writers, gate,
                   all_synthesized>>
    /\ UNCHANGED assemblerVars
    /\ UNCHANGED exceptMain

\* main.py:147-162: the results are sorted and the orchestrator writes the
\* metadata file with tts_complete
Persist ==
    /\ main_pc = "persist"
    /\ main_transcripts' = SortedByStart(updated_transcripts)
    /\ metadata_file' = [paths |-> TRUE, subtitle_paths |-> subtitle_paths,
                         transcripts |-> main_transcripts', tts_complete |-> TRUE]
    /\ writers' = writers \cup {"orchestrator"}
    /\ main_pc' = "assemble"
    /\ UNCHANGED <<captions, subtitle_files, clip_files, completed_clips, run,
                   main_error, download_metadata, subtitle_paths, parsed,
                   futures, updated_transcripts, synth_calls, gate,
                   all_synthesized>>
    /\ UNCHANGED assemblerVars
    /\ UNCHANGED exceptMain

\* main.py:166-179: the list is passed to insert_audio_at_timestamps
Assemble ==
    /\ main_pc = "assemble"
    /\ utterance_metadata' = main_transcripts
    /\ main_pc' = "mux"
    /\ UNCHANGED <<captions, metadata_file, subtitle_files, clip_files,
                   completed_clips, run, main_error, download_metadata,
                   subtitle_paths, parsed, main_transcripts, futures,
                   updated_transcripts, synth_calls, writers, gate,
                   all_synthesized>>
    /\ UNCHANGED <<background_duration, timeline_duration, previous_end,
                   placements, seg, asm_pc>>
    /\ UNCHANGED exceptMain

\* main.py:182-202: combine_audio_video returns
Mux ==
    /\ main_pc = "mux"
    /\ main_pc' = "finish"
    /\ UNCHANGED <<captions, metadata_file, subtitle_files, clip_files,
                   completed_clips, run, main_error, download_metadata,
                   subtitle_paths, parsed, main_transcripts, futures,
                   updated_transcripts, synth_calls, writers, gate,
                   all_synthesized>>
    /\ UNCHANGED assemblerVars
    /\ UNCHANGED exceptMain

\* combine_audio_video raises
MuxRaise ==
    /\ main_pc = "mux"
    /\ main_error' = "mux"
    /\ main_pc' = "raised"
    /\ UNCHANGED <<captions, metadata_file, subtitle_files, clip_files,
                   completed_clips, run, download_metadata, subtitle_paths,
                   parsed, main_transcripts, futures, updated_transcripts,
                   synth_calls, writers, gate, all_synthesized>>
    /\ UNCHANGED assemblerVars
    /\ UNCHANGED exceptMain

\* main.py:204-212: with cleanup the clip file of every item is removed
Finish ==
    /\ main_pc = "finish"
    /\ \E cleanup \in BOOLEAN :
          LET removed == IF cleanup
                         THEN {main_transcripts[i].dubbed_path :
                                  i \in {j \in 1..Len(main_transcripts) :
                                           "dubbed_path" \in DOMAIN main_transcripts[j]}}
                         ELSE {}
          IN  /\ clip_files' = clip_files \ removed
              /\ completed_clips' = completed_clips \ removed
    /\ main_pc' = "done"
    /\ UNCHANGED <<captions, metadata_file, subtitle_files, run, main_error,
                   download_metadata, subtitle_paths, parsed, main_transcripts,
                   futures, updated_transcripts, synth_calls, writers, gate,
                   all_synthesized>>
    /\ UNCHANGED assemblerVars
    /\ UNCHANGED exceptMain

\* the process is killed; a clip being synthesized may or may not be on
\* disk, written in part or written and not yet trimmed
Kill ==
    /\ main_pc \in {"loaded", "fetch", "gate", "collect", "persist", "assemble",
                    "mux", "finish"}
    /\ \E written \in BOOLEAN :
          clip_files' =
              IF written
              THEN clip_files \cup
                      {OutputPath(i - 1, futures[i].item) :
                          i \in {j \in 1..Len(futures) : futures[j].state = "running"}}
              ELSE clip_files
    /\ main_pc' = "killed"
    /\ UNCHANGED <<captions, metadata_file, subtitle_files, completed_clips,
                   run, main_error, download_metadata, subtitle_paths, parsed,
                   main_transcripts, futures, updated_transcripts, synth_calls,
                   writers, gate, all_synthesized>>
    /\ UNCHANGED assemblerVars
    /\ UNCHANGED exceptMain

\* the program is run again on the same output directory
RunAgain ==
    /\ main_pc \in {"done", "raised", "killed"}
    /\ run < MaxRuns
    /\ run' = run + 1
    /\ all_synthesized' = (gate = "open" /\ \A i \in 1..Len(futures) :
                                               futures[i].state = "returned")
    /\ main_pc' = "start"
    /\ main_error' = "none"
    /\ download_metadata' = NoMetadata
    /\ subtitle_paths' = <<>>
    /\ parsed' = "none"
    /\ main_transcripts' = <<>>
    /\ futures' = <<>>
    /\ updated_transcripts' = <<>>
    /\ synth_calls' = 0
    /\ writers' = {}
    /\ gate' = "unknown"
    /\ utterance_metadata' = <<>>
    /\ UNCHANGED <<captions, metadata_file, subtitle_files, clip_files,
                   completed_clips>>
    /\ UNCHANGED <<background_duration, timeline_duration, previous_end,
                   placements, seg, asm_pc>>
    /\ UNCHANGED exceptMain

MainNext ==
    \/ LoadMetadata
    \/ SkipDownload
    \/ YtDownload
    \/ YtDownloadRaise
    \/ UseStoredTranscripts
    \/ FetchTranscripts
    \/ FetchTranscriptsRaise
    \/ SkipSynthesis
    \/ SubmitAll
    \/ \E i \in 1..Len(futures) : WorkerShortCircuit(i)
    \/ \E i \in 1..Len(futures) : WorkerCall(i)
    \/ \E i \in 1..Len(futures) : WorkerReturn(i)
    \/ \E i \in 1..Len(futures) : WorkerRaise(i)
    \/ \E i \in 1..Len(futures) : Collect(i)
    \/ ExitPool
    \/ Persist
    \/ Assemble
    \/ Mux
    \/ MuxRaise
    \/ Finish
    \/ Kill
    \/ RunAgain

MainSpec == MainInit /\ [][MainNext]_vars


(***************************************************************************)
(* Properties of concat_close_transcripts.                                 *)
(***************************************************************************)
Last(seq) == seq[Len(seq)]

\* every fragment of the argument has start <= end
ValidInput == \A i \in 1..Len(transcripts) : transcripts[i].start <= transcripts[i].end

NonDecreasingStart(seq) == \A i \in 1..(Len(seq) - 1) : seq[i].start <= seq[i + 1].start

\* C1: when every input fragment has start <= end, every segment of the
\* returned list has end >= start.
C1_EndNotBeforeStart ==
    (pc = "returned" /\ ValidInput)
        => \A j \in 1..Len(concatenated) : concatenated[j].end >= concatenated[j].start

\* C2: when the input starts are non-decreasing (and every fragment has
\* start <= end, as the data model requires), the starts of the returned list
\* are non-decreasing.
C2_OutputStartsNonDecreasing ==
    (pc = "returned" /\ ValidInput /\ NonDecreasingStart(transcripts))
        => NonDecreasingStart(concatenated)

\* C3: for a non-empty input (of fragments with start <= end) the returned
\* list covers the input's span: its first start is the first input start and
\* its last end is the last input end.
C3_SameSpan ==
    (pc = "returned" /\ ValidInput /\ transcripts # <<>>)
        => /\ concatenated # <<>>
           /\ concatenated[1].start = transcripts[1].start
           /\ Last(concatenated).end = Last(transcripts).end

\* C4: the returned list is never longer than the input, and it is empty
\* exactly when the input is empty.
C4_LengthBound ==
    pc = "returned"
        => /\ Len(concatenated) <= Len(transcripts)
           /\ (Len(concatenated) = 0 <=> Len(transcripts) = 0)

\* C4 witness: three fragments were merged into two segments
C4_Witness ==
    /\ pc = "returned"
    /\ pass = 1
    /\ Len(transcripts) = 3
    /\ Len(concatenated) = 2

\* no two adjacent segments of seq satisfy the merge condition
NoAdjacentMerge(seq) ==
    \A i \in 1..(Len(seq) - 1) : ~MergeCondition(seq[i], seq[i + 1], threshold)

\* every fragment of the caller's list has start <= end
ValidFragments == \A i \in 1..Len(fragments) : fragments[i].start <= fragments[i].end

\* C5: applying the merge to its own output, same threshold, returns that
\* output unchanged (same start, end, text, translated_text) whenever no two
\* adjacent segments of the first output satisfy the merge condition.
C5_Idempotent ==
    (pc = "returned" /\ pass = 2 /\ ValidFragments /\ NoAdjacentMerge(first_output))
        => concatenated = first_output

\* the merge condition of one iteration, written from the claim: open is the
\* open segment, fragment the candidate
ClaimedMultiplier(open, fragment) ==
    IF Len(open.text) < 3 \/ Len(fragment.text) < 3 THEN 2 ELSE 1

ClaimedOpenStart(open, fragment) ==
    IF ClaimedMultiplier(open, fragment) = 2 THEN open.start + threshold ELSE open.start

ClaimedCondition(open, fragment) ==
    /\ fragment.start - open.end <= threshold * ClaimedMultiplier(open, fragment)
    /\ fragment.end - ClaimedOpenStart(open, fragment) <= 120 * TicksPerSecond

\* the state is about to run one iteration of the loop
AtIteration == pc = "loop" /\ idx <= Len(transcripts)

\* C6: in every iteration the candidate is merged into the open segment iff
\* gap <= threshold * m and fragment.end - open.start (after the nudge) <= 120 s,
\* m being 2 exactly when one of the two texts has fewer than 3 words;
\* otherwise the open segment is closed and the candidate becomes the open one.
C6_MergeIff ==
    [][ AtIteration =>
          LET open == Last(concatenated)
              fragment == transcripts[idx]
          IN  IF ClaimedCondition(open, fragment)
              THEN /\ Len(concatenated') = Len(concatenated)
                   /\ Last(concatenated').end = fragment.end
                   /\ Last(concatenated').start = ClaimedOpenStart(open, fragment)
              ELSE /\ Len(concatenated') = Len(concatenated) + 1
                   /\ Last(concatenated') = fragment
                   /\ concatenated'[Len(concatenated)] =
                         [open EXCEPT !.start = ClaimedOpenStart(open, fragment)]
      ]_vars

\* C6 witness: a short first fragment absorbed the second across a gap wider
\* than the threshold (doubled threshold), and the third one, compared with
\* the single threshold, closed the segment
C6_Witness ==
    /\ pc = "returned"
    /\ pass = 1
    /\ Len(transcripts) = 3
    /\ Len(concatenated) = 2
    /\ transcripts[2].start - transcripts[1].end > threshold
    /\ concatenated[1].end = transcripts[2].end
    /\ Len(transcripts[3].text) >= 3
    /\ transcripts[3].start - transcripts[2].end > threshold
    /\ transcripts[3].start - transcripts[2].end <= 2 * threshold
    /\ transcripts[3].end - concatenated[1].start <= 120 * TicksPerSecond

\* the annotation as the claim words it: K = floor(max(gap, 0)) whole seconds,
\* printed as a whole number ("(pause for 1 seconds)")
ClaimedAnnotation(gap) ==
    << Lit("(pause"), Lit("for"),
       FormatNumber(FALSE, (IF gap > 0 THEN gap ELSE 0) \div TicksPerSecond),
       Lit("seconds).") >>

\* C7: a merge sets the open segment's end to the fragment's end and appends
\* to text and to translated_text the annotation carrying K = floor(max(gap, 0)),
\* read "(pause for K seconds)" with K a whole number, then the fragment's text.
C7_PauseAnnotation ==
    [][ (AtIteration /\ ValidInput /\ pc' = "loop" /\ Len(concatenated') = Len(concatenated)) =>
          LET open == Last(concatenated)
              fragment == transcripts[idx]
              gap == fragment.start - open.end
          IN  /\ Last(concatenated').end = fragment.end
              /\ Last(concatenated').text =
                    open.text \o ClaimedAnnotation(gap) \o fragment.text
              /\ Last(concatenated').translated_text =
                    open.translated_text \o ClaimedAnnotation(gap) \o fragment.translated_text
      ]_vars

\* C8: when the merge condition holds and translated_text is unset on the
\* open segment or on the candidate, the pair is still merged (end and text
\* updated), translated_text is left alone and no error is raised.
C8_UnsetTranslationSkipped ==
    [][ ( /\ AtIteration
          /\ ValidInput
          /\ ClaimedCondition(Last(concatenated), transcripts[idx])
          /\ (~Last(concatenated).has_translated \/ ~transcripts[idx].has_translated) )
        => /\ pc' = "loop"
           /\ error' = "none"
           /\ Len(concatenated') = Len(concatenated)
           /\ Last(concatenated').end = transcripts[idx].end
           /\ Last(concatenated').translated_text = Last(concatenated).translated_text
      ]_vars

\* C9: a call on a list that contains a fragment with end < start fails with
\* InvalidSegment and returns nothing.
C9_InvalidSegmentRejected ==
    (pc \in {"loop", "returned", "raised"} /\ ~ValidInput)
        => (pc # "returned" /\ (pc = "raised" => error = "InvalidSegment"))

(***************************************************************************)
(* Properties of insert_audio_at_timestamps.                               *)
(***************************************************************************)
\* end of the clip placed before placement k, 0 before the first
PlacedEndBefore(k) ==
    IF k = 1 THEN 0 ELSE placements[k - 1].start + placements[k - 1].duration

\* C10: every clip is placed at max(segment.start, previous_placement_end);
\* so consecutive placed clips never overlap (the next starts no earlier than
\* the previous start plus its clip duration) and no clip starts before its
\* segment's start.
C10_NoOverlap ==
    /\ \A k \in 1..Len(placements) :
          /\ placements[k].start >= utterance_metadata[placements[k].segment].start
          /\ placements[k].start =
                Max(utterance_metadata[placements[k].segment].start, PlacedEndBefore(k))
    /\ \A k \in 1..(Len(placements) - 1) :
          placements[k + 1].start >= placements[k].start + placements[k].duration

\* C10 witness: starts 0 s and 2 s with clips of 3 s and 5 s, the second clip
\* placed at 3 s
C10_Witness ==
    /\ asm_pc = "done"
    /\ Len(placements) = 2
    /\ utterance_metadata[placements[1].segment].start = 0
    /\ utterance_metadata[placements[2].segment].start = 4
    /\ placements[1].duration = 6
    /\ placements[2].duration = 10
    /\ placements[2].start = 6

(***************************************************************************)
(* Properties of combine_audio_video.                                      *)
(***************************************************************************)
\* the command first built, with the padded file in place of the dubbed
\* audio file and every other argument unchanged
PaddedCommand ==
    [j \in 1..Len(FfmpegCmd) |->
        IF FfmpegCmd[j] = dubbed_audio_file THEN temp_audio ELSE FfmpegCmd[j]]

\* C19: when the dubbed audio is shorter than the video, the mux command
\* that is run has the video file as its first input and the padded audio
\* file as its second input, every other argument being as first built.
C19_PaddedAudioIsSecondInput ==
    (mux_pc = "ready" /\ audio_duration < video_duration) =>
        /\ Inputs(ffmpeg_cmd) = <<video_file, temp_audio>>
        /\ ffmpeg_cmd = PaddedCommand

(***************************************************************************)
(* Properties of translate_transcripts and _translate_text.                *)
(***************************************************************************)
\* C14: whenever translate_transcripts returns, the result has as many items
\* as the input, in the same order, item i carrying start, end and text of
\* input item i; and the length assertion never fails, whatever the size of
\* the batch.
C14_SameCountAndOrder ==
    /\ translate_pc = "returned" =>
          /\ Len(results) = Len(batch)
          /\ \A j \in 1..Len(batch) :
                /\ results[j].start = batch[j].start
                /\ results[j].end = batch[j].end
                /\ results[j].text = batch[j].text
    /\ translate_pc # "AssertionError"

\* C15: after a marker-count mismatch _translate_text makes exactly one
\* further attempt, with a different model; a second mismatch fails instead
\* of being retried.
C15_OneRetryOnMismatch ==
    mismatches >= 2 => translate_pc = "raised"

(***************************************************************************)
(* Properties of _convert_text_to_speech.                                  *)
(***************************************************************************)
\* C16: a failure to write the output file is retried one time; a second
\* consecutive write failure ends the call with an error.
C16_OneRetryOnWriteFailure ==
    write_failures >= 2 => tts_pc = "raised"

(***************************************************************************)
(* Properties of main.                                                     *)
(***************************************************************************)
\* synthesis ran in this run and the pool has been left
PoolExited ==
    gate = "open" /\ main_pc \in {"persist", "assemble", "mux", "finish", "done", "raised"}

\* the list has been handed to insert_audio_at_timestamps in this run
Assembled == main_pc \in {"mux", "finish", "done"} \/ (main_pc = "raised" /\ main_error = "mux")

\* item is the segment merged, whatever keys the worker added to it
SameSegment(item, merged) ==
    item.start = merged.start /\ item.end = merged.end /\ item.text = merged.text

Contains(list, merged) == \E k \in 1..Len(list) : SameSegment(list[k], merged)

\* C11: in every run that reaches assembly, whatever the order in which the
\* futures completed, and also on a resumed run whose tts_complete flag is
\* already set, the list passed to insert_audio_at_timestamps is in
\* non-decreasing start order.
C11_AssemblyInputSorted ==
    Assembled => NonDecreasingStart(utterance_metadata)

\* C12: when the synthesis of a segment raises, the orchestrator still
\* collects the result of every other future; the failed segment is absent
\* from the collected list and from the list passed to assembly, and the
\* failure does not end the run, which goes on to assembly and muxing.
C12_FailedSegmentSkipped ==
    /\ PoolExited =>
          /\ \A i \in 1..Len(futures) :
                /\ futures[i].state = "returned"
                      => \E k \in 1..Len(updated_transcripts) :
                            updated_transcripts[k] = Synthesized(i - 1, futures[i].item)
                /\ futures[i].state = "raised"
                      => ~Contains(updated_transcripts, futures[i].item)
          /\ main_pc = "raised" => main_error = "mux"
    /\ (gate = "open" /\ Assembled) =>
          \A i \in 1..Len(futures) :
              /\ futures[i].state = "returned" => Contains(utterance_metadata, futures[i].item)
              /\ futures[i].state = "raised" => ~Contains(utterance_metadata, futures[i].item)

\* C12 witness: of two segments one failed and one was synthesized, and the
\* run has muxed the assembly of the one
C12_Witness ==
    /\ main_pc = "finish"
    /\ gate = "open"
    /\ Len(futures) = 2
    /\ futures[1].state = "raised"
    /\ futures[2].state = "returned"
    /\ Len(utterance_metadata) = 1
    /\ SameSegment(utterance_metadata[1], futures[2].item)

\* C13: a run on the same output directory that follows a run in which
\* every segment was synthesized makes no remote synthesis call.
C13_NoSecondSynthesis ==
    all_synthesized => synth_calls = 0

\* C13 witness: the first run synthesized both segments and was killed
\* before it persisted; in the second run both workers found their clip
C13_Witness ==
    /\ all_synthesized
    /\ run = 2
    /\ gate = "open"
    /\ main_pc = "persist"
    /\ Len(futures) = 2
    /\ \A i \in 1..Len(futures) : futures[i].state = "returned"
    /\ synth_calls = 0

Downloaded == main_pc = "fetch" /\ ~download_metadata.paths

\* C18: when yt_download returns exactly one subtitle path it is the path of
\* the source-language file; when it returns two they are ordered source,
\* target.
C18_SinglePathIsSource ==
    Downloaded =>
        /\ Len(subtitle_paths) = 1 => subtitle_paths = <<"source">>
        /\ Len(subtitle_paths) = 2 => subtitle_paths = <<"source", "target">>

\* C20: no segment is deleted after merging: every segment handed to the
\* pool, those whose synthesis failed included, is in the transcripts
\* persisted after synthesis and in the list passed to assembly.
C20_NoSegmentDeleted ==
    /\ (gate = "open" /\ main_pc \in {"assemble", "mux", "finish", "done"}) =>
          \A i \in 1..Len(futures) : Contains(metadata_file.transcripts, futures[i].item)
    /\ (gate = "open" /\ Assembled) =>
          \A i \in 1..Len(futures) : Contains(utterance_metadata, futures[i].item)

(***************************************************************************)
(* Further properties of concat_close_transcripts.                         *)
(***************************************************************************)
\* index in the argument of the first and of the last fragment a segment
\* of the output was built from (its words carry their fragment's index)
FirstFragment(segment) == segment.text[1].frag
LastFragment(segment) == segment.text[Len(segment.text)].frag

\* the comparison of the open segment built from fragments first..(c - 1)
\* with candidate c is one in which either text has fewer than 3 words; an
\* open segment that has absorbed a fragment has more than 3 words
IsShortComparison(first, c) ==
    \/ Len(transcripts[c].text) < 3
    \/ (c = first + 1 /\ Len(transcripts[first].text) < 3)

\* the candidates output segment j was compared against: the fragments it
\* absorbed and, unless it is the last segment, the one that closed it
Candidates(j) ==
    (FirstFragment(concatenated[j]) + 1) ..
        (IF j < Len(concatenated) THEN FirstFragment(concatenated[j + 1])
         ELSE LastFragment(concatenated[j]))

ShortComparisons(j) ==
    Cardinality({c \in Candidates(j) : IsShortComparison(FirstFragment(concatenated[j]), c)})

\* C21: each comparison of the open segment with a candidate in which either
\* text has fewer than 3 words adds exactly the threshold to the open
\* segment's start, before the merge condition is evaluated and whether or
\* not the merge happens; any other comparison leaves the start unchanged;
\* so a segment compared against k such candidates ends with
\* start = original start + k * threshold.
C21_NudgePerShortComparison ==
    /\ [][ AtIteration =>
             concatenated'[Len(concatenated)].start =
                 Last(concatenated).start
                   + (IF ClaimedMultiplier(Last(concatenated), transcripts[idx]) = 2
                      THEN threshold ELSE 0)
         ]_vars
    /\ [](  (pc = "returned" /\ pass = 1) =>
               \A j \in 1..Len(concatenated) :
                   concatenated[j].start =
                       transcripts[FirstFragment(concatenated[j])].start
                         + ShortComparisons(j) * threshold )

\* C21 witness: the first segment was compared against two candidates in
\* short comparisons, merged the first, was closed by the second, and its
\* start is two thresholds later than its first fragment's
C21_Witness ==
    /\ pc = "returned"
    /\ pass = 1
    /\ Len(transcripts) = 3
    /\ Len(concatenated) = 2
    /\ LastFragment(concatenated[1]) = 2
    /\ ShortComparisons(1) = 2
    /\ concatenated[1].start = transcripts[1].start + 2 * threshold

\* the segment was produced by merging two or more fragments
IsMerged(segment) == FirstFragment(segment) # LastFragment(segment)

\* C22: when the call returns, no segment produced by merging two or more
\* fragments covers more than 120 seconds of the source timeline, measured
\* from the original start of its first fragment to the end of its last.
C22_MergedSpanWithinLimit ==
    (pc = "returned" /\ pass = 1 /\ ValidInput) =>
        \A j \in 1..Len(concatenated) :
            IsMerged(concatenated[j]) =>
                transcripts[LastFragment(concatenated[j])].end
                    - transcripts[FirstFragment(concatenated[j])].start
                  <= 120 * TicksPerSecond

\* the words of a text that are not words of a pause annotation
RECURSIVE WithoutAnnotations(_)
WithoutAnnotations(text) ==
    IF text = <<>> THEN <<>>
    ELSE IF Head(text).frag = 0 THEN WithoutAnnotations(Tail(text))
    ELSE <<Head(text)>> \o WithoutAnnotations(Tail(text))

\* the texts of a list of segments read in order
RECURSIVE TextsInOrder(_)
TextsInOrder(list) ==
    IF list = <<>> THEN <<>>
    ELSE list[1].text \o TextsInOrder(Tail(list))

\* the words of fragment i occur in segment j
OccursIn(i, j) == \E w \in 1..Len(concatenated[j].text) : concatenated[j].text[w].frag = i

\* C23: the returned list neither drops nor duplicates nor reorders
\* utterances: every input fragment's text is in exactly one output segment,
\* once, and the output texts read in order, pause annotations removed, are
\* the input fragment texts in their original order.
C23_TextsPreserved ==
    (pc = "returned" /\ pass = 1) =>
        /\ WithoutAnnotations(TextsInOrder(concatenated)) = TextsInOrder(transcripts)
        /\ \A i \in 1..Len(transcripts) :
              Cardinality({j \in 1..Len(concatenated) : OccursIn(i, j)}) = 1

\* C23 witness: three fragments returned as a merged segment of two and a
\* segment of one
C23_Witness ==
    /\ pc = "returned"
    /\ pass = 1
    /\ Len(transcripts) = 3
    /\ Len(concatenated) = 2
    /\ OccursIn(1, 1) /\ OccursIn(2, 1) /\ OccursIn(3, 2)
    /\ Len(concatenated[1].text) > Len(transcripts[1].text) + Len(transcripts[2].text)

(***************************************************************************)
(* Properties of the files main leaves on disk.                            *)
(***************************************************************************)
\* the item has a dubbed_path and the clip file at that path exists
ClipOnDisk(item) ==
    "dubbed_path" \in DOMAIN item /\ item.dubbed_path \in clip_files

\* C24: over every sequence of runs on one output directory, with or
\* without cleanup, when a later run has reached assembly and the persisted
\* tts_complete is true, every segment of the persisted transcripts has a
\* dubbed_path whose clip file is on disk.
C24_CompleteImpliesClips ==
    (run > 1 /\ main_pc = "mux" /\ metadata_file.tts_complete) =>
        \A k \in 1..Len(metadata_file.transcripts) :
            ClipOnDisk(metadata_file.transcripts[k])

\* C25: a clip file is at a segment's output path only if the synthesis of
\* that segment completed (audio written and trailing silence trimmed), so
\* a worker never takes the already-exists return for a segment whose
\* synthesis did not complete.
C25_ClipOnlyIfCompleted ==
    /\ [](clip_files \subseteq completed_clips)
    /\ [][ \A i \in 1..Len(futures) :
              (/\ i <= Len(futures')
               /\ futures[i].state = "pending"
               /\ futures'[i].state = "returned")
                  => OutputPath(i - 1, futures[i].item) \in completed_clips
         ]_vars

====
